---- MODULE Spec2Model ----
(***************************************************************************)
(* State-machine model of src/server.js: an Express application over one   *)
(* SQLite table "faq".  Text values are sequences of one-character         *)
(* strings, so that trimming, splitting and joining are computed.          *)
(* Timestamps are clock readings; toISOString() is order preserving, so    *)
(* comparing the readings equals comparing the stored ISO strings.         *)
(***************************************************************************)
EXTENDS Integers, Sequences, FiniteSets, TLC

\* ------------------------------------------------------------------ bounds
MaxReqs == 2        \* requests in flight at a time
MaxId == 3          \* rows ever inserted (requests and self-tests together)
MaxClock == 1       \* clock readings 0..MaxClock
MaxRequests == 3    \* requests received in one behaviour
MaxRestarts == 1    \* process restarts in one behaviour
MaxLen == 4         \* length of the strings given to normalizeCategory alone

\* ------------------------------------------------------------- text values
Absent == <<"undefined">>      \* a field missing from the body (or null)
WhiteSpace == {" ", "\t"}
Comma == ","

TestQuestion == <<"T","e","s","t"," ","q","u","e","s","t","i","o","n">>
TestAnswer == <<"T","e","s","t"," ","a","n","s","w","e","r">>

\* JavaScript truthiness of a body field
Truthy(v) == v # Absent /\ v # <<>>

RECURSIVE TrimStart(_)
TrimStart(s) ==
    IF s = <<>> THEN <<>>
    ELSE IF Head(s) \in WhiteSpace THEN TrimStart(Tail(s)) ELSE s

RECURSIVE TrimEnd(_)
TrimEnd(s) ==
    IF s = <<>> THEN <<>>
    ELSE IF s[Len(s)] \in WhiteSpace THEN TrimEnd(SubSeq(s, 1, Len(s) - 1)) ELSE s

\* String.prototype.trim
Trim(s) == TrimEnd(TrimStart(s))

\* String.prototype.split(","): the pieces between the commas, empty ones kept
RECURSIVE SplitFrom(_, _, _)
SplitFrom(s, i, cur) ==
    IF i > Len(s) THEN <<cur>>
    ELSE IF s[i] = Comma THEN <<cur>> \o SplitFrom(s, i + 1, <<>>)
    ELSE SplitFrom(s, i + 1, Append(cur, s[i]))

Split(s) == SplitFrom(s, 1, <<>>)

\* Array.prototype.join(",")
RECURSIVE Join(_)
Join(ts) ==
    IF ts = <<>> THEN <<>>
    ELSE IF Len(ts) = 1 THEN ts[1]
    ELSE ts[1] \o <<Comma>> \o Join(Tail(ts))

\* .map(t => t.trim())
MapTrim(ts) == [i \in 1..Len(ts) |-> Trim(ts[i])]

\* .filter(Boolean)
FilterBoolean(ts) == SelectSeq(ts, LAMBDA t : t # <<>>)

\* a variant that drops the empty pieces before trimming them
normalizeCategoryFilterFirst(category) ==
    IF ~Truthy(category) THEN <<>>
    ELSE Join(MapTrim(FilterBoolean(Split(category))))

normalizeCategory(category) ==
    IF ~Truthy(category) THEN <<>>
    ELSE Join(FilterBoolean(MapTrim(Split(category))))

\* ------------------------------------------------------------------ inputs
\* request bodies: a complete one, one whose question is blank, one asking the
\* self-test's question, one without question, one without answer
PaddedQuestion == <<" ", "Q">>
PaddedAnswer == <<"A", " ">>
LooseCategory == <<" ", "x", ",", " ", ",", "y">>
Complete == [question |-> PaddedQuestion, answer |-> PaddedAnswer, category |-> LooseCategory]
BlankQuestion == [question |-> <<" ">>, answer |-> PaddedAnswer, category |-> Absent]
AsksTest == [question |-> TestQuestion, answer |-> PaddedAnswer, category |-> Absent]
NoQuestion == [question |-> Absent, answer |-> PaddedAnswer, category |-> LooseCategory]
NoAnswer == [question |-> PaddedQuestion, answer |-> Absent, category |-> Absent]
PostBodies == {Complete, BlankQuestion, AsksTest, NoQuestion, NoAnswer}
PutBodies == {Complete, NoAnswer}

\* ------------------------------------------------------------------- state
VARIABLES
    exists,     \* whether table faq exists in the database file
    table,      \* the rows of table faq
    seq,        \* sqlite_sequence.seq of faq: the largest id ever assigned
    clock,      \* the last reading new Date() gave
    initPc,     \* position of the startup chain: create, insert, cleanup, done
    testNow,    \* the self-test's timestamp
    reqs,       \* the requests in flight
    resp,       \* the response the last step sent, with its request
    nreq,       \* requests received so far
    boots,      \* restarts so far
    created,    \* history: the ids in the order their rows were inserted, and by whom
    deleted,    \* history: the ids a DELETE request has removed
    atStart,    \* history: the rows persisted when the process last started
    touched,    \* history: ids a request's statement wrote since that start
    catIn, catOut, catTwice, normPc   \* normalizeCategory applied on its own

vars == <<exists, table, seq, clock, initPc, testNow, reqs, resp, nreq, boots,
          created, deleted, atStart, touched, catIn, catOut, catTwice, normPc>>

normVars == <<catIn, catOut, catTwice, normPc>>
history == <<created, deleted, atStart, touched>>

\* the :id of a request names a row that exists or existed, or the next one
Ids == 1..(IF seq < MaxId THEN seq + 1 ELSE MaxId)
\* new Date(): the clock never runs backwards
Readings == clock..MaxClock

NoBody == [question |-> Absent, answer |-> Absent, category |-> Absent]
NoParams == [question |-> <<>>, answer |-> <<>>, category |-> <<>>, now |-> 0]

Idle == [kind |-> "none", phase |-> "idle", id |-> 0, body |-> NoBody,
         params |-> NoParams, lastID |-> 0, err |-> FALSE, changes |-> 0,
         status |-> 0, rid |-> 0, data |-> <<>>, stmts |-> 0, responses |-> 0,
         untouched |-> TRUE]

\* a request as the router hands it to its handler
Received(kind, id, body) == [Idle EXCEPT !.kind = kind, !.phase = "received",
                                         !.id = id, !.body = body]

\* res.status(status).json({id: rid, data: data})
Respond(r, status, rid, data) ==
    [r EXCEPT !.phase = "responded", !.status = status, !.rid = rid,
              !.data = data, !.responses = @ + 1]

\* db.run / db.get / db.all: the statement is handed to the engine
Issue(r, phase) == [r EXCEPT !.phase = phase, !.stmts = @ + 1]

\* the engine's answer to a statement: an error when it fails by itself or
\* when table faq does not exist yet
Fails(err) == err \/ ~exists

\* what a handler or callback makes of request `old` (Idle for a new one):
\* the request stays in flight while a statement is pending; once answered
\* it is gone and the answer is the step's response
Settle(rs, old, new) ==
    /\ reqs' = (rs \ {old}) \cup (IF new.phase = "responded" THEN {} ELSE {new})
    /\ resp' = IF new.responses > 0 THEN new ELSE Idle

\* a new request is taken while fewer than MaxReqs are in flight; no two
\* requests in flight are the same request
Accepts(kind, id, body) ==
    /\ nreq < MaxRequests
    /\ Cardinality(reqs) < MaxReqs
    /\ \A r \in reqs : ~(r.kind = kind /\ r.id = id /\ r.body = body)

RowsWithId(id) == {r \in table : r.id = id}
MaxOf(S) == CHOOSE x \in S : \A y \in S : y <= x

\* a variant without AUTOINCREMENT: one more than the largest id in the table
NextIdOfRows == MaxOf({0} \cup {r.id : r \in table}) + 1

\* INTEGER PRIMARY KEY AUTOINCREMENT: one more than the largest id ever used
NextId == MaxOf({seq} \cup {r.id : r \in table}) + 1

NewRow(id, question, answer, category, createdAt, updatedAt) ==
    [id |-> id, question |-> question, answer |-> answer, category |-> category,
     created_at |-> createdAt, updated_at |-> updatedAt]

\* a variant that also sets created_at
UpdateRowAndCreated(r, p) ==
    [r EXCEPT !.question = p.question, !.answer = p.answer,
              !.category = p.category, !.updated_at = p.now, !.created_at = p.now]

\* SET question = ?, answer = ?, category = ?, updated_at = ?
UpdateRow(r, p) ==
    [r EXCEPT !.question = p.question, !.answer = p.answer,
              !.category = p.category, !.updated_at = p.now]

\* a variant: ORDER BY id ASC
RECURSIVE OrderByIdAsc(_)
OrderByIdAsc(rows) ==
    IF rows = {} THEN <<>>
    ELSE LET low == CHOOSE r \in rows : \A o \in rows : r.id <= o.id
         IN <<low>> \o OrderByIdAsc(rows \ {low})

\* ORDER BY id DESC
RECURSIVE OrderByIdDesc(_)
OrderByIdDesc(rows) ==
    IF rows = {} THEN <<>>
    ELSE LET top == CHOOSE r \in rows : \A o \in rows : o.id <= r.id
         IN <<top>> \o OrderByIdDesc(rows \ {top})

\* rows.map(r => ({...r, category: normalizeCategory(r.category)}))
CleanRows(rows) ==
    [i \in 1..Len(rows) |-> [rows[i] EXCEPT !.category = normalizeCategory(@)]]

\* db.get("SELECT * FROM faq WHERE id = ?"): the row, or none
SelectById(id) ==
    IF RowsWithId(id) = {} THEN <<>> ELSE <<CHOOSE r \in RowsWithId(id) : TRUE>>

\* history: a statement that wrote rows `ids` ran between another request's
\* insert and its read-back
Disturb(rs, ids) ==
    {IF r.kind = "POST" /\ r.phase = "readback" /\ r.lastID \in ids
     THEN [r EXCEPT !.untouched = FALSE] ELSE r : r \in rs}

\* -------------------------------------------------------------------- Init
\* the process has started on a new database file and has handed
\* CREATE TABLE to the engine
Init ==
    /\ exists = FALSE
    /\ table = {}
    /\ seq = 0
    /\ clock = 0
    /\ initPc = "create"
    /\ testNow = 0
    /\ reqs = {}
    /\ resp = Idle
    /\ nreq = 0
    /\ boots = 0
    /\ created = <<>>
    /\ deleted = {}
    /\ atStart = {}
    /\ touched = {}
    /\ catIn = Absent /\ catOut = <<>> /\ catTwice = <<>> /\ normPc = "off"

\* ------------------------------------------------------ startup self-test
\* the startup chain has ended: its locals and the start's history are dropped
InitEnds ==
    /\ initPc' = "done"
    /\ testNow' = 0
    /\ atStart' = {}
    /\ touched' = {}

\* db.run(createTableSQL, callback): CREATE TABLE IF NOT EXISTS keeps the rows
InitCreate(err) ==
    /\ initPc = "create"
    /\ IF err
       THEN /\ InitEnds
            /\ UNCHANGED <<exists, clock>>
       ELSE /\ exists' = TRUE
            /\ initPc' = "insert"
            /\ \E now \in Readings : testNow' = now /\ clock' = now
            /\ UNCHANGED <<atStart, touched>>
    /\ resp' = Idle
    /\ UNCHANGED <<table, seq, reqs, nreq, boots, created, deleted, normVars>>

\* db.run(testSQL, ["Test question", "Test answer", testNow, testNow], callback)
InitInsert(err) ==
    /\ initPc = "insert"
    /\ IF Fails(err)
       THEN /\ InitEnds
            /\ UNCHANGED <<table, seq, created>>
       ELSE /\ seq < MaxId
            /\ table' = table \cup
                 {NewRow(NextId, TestQuestion, TestAnswer, <<>>, testNow, testNow)}
            /\ seq' = NextId
            /\ created' = Append(created, [id |-> NextId, by |-> "self-test"])
            /\ initPc' = "cleanup"
            /\ UNCHANGED <<testNow, atStart, touched>>
    /\ resp' = Idle
    /\ UNCHANGED <<exists, clock, reqs, nreq, boots, deleted, normVars>>

\* DELETE FROM faq WHERE question = 'Test question': the rows it leaves
CleanupDelete == {r \in table : r.question # TestQuestion}

\* db.run("DELETE FROM faq WHERE question = 'Test question'", callback)
InitCleanup(err) ==
    /\ initPc = "cleanup"
    /\ InitEnds
    /\ IF Fails(err)
       THEN UNCHANGED <<table, reqs>>
       ELSE /\ table' = CleanupDelete
            /\ reqs' = Disturb(reqs, {r.id : r \in table \ CleanupDelete})
    /\ resp' = Idle
    /\ UNCHANGED <<exists, seq, clock, nreq, boots, created, deleted, normVars>>

\* the process stops and starts again: the database file stays, the requests
\* in flight are lost, the startup chain runs again
Restart ==
    /\ boots < MaxRestarts
    /\ boots' = boots + 1
    /\ reqs' = {}
    /\ resp' = Idle
    /\ initPc' = "create"
    /\ testNow' = 0
    /\ atStart' = table
    /\ touched' = {}
    /\ UNCHANGED <<exists, table, seq, clock, nreq, created, deleted, normVars>>

\* ---------------------------------------------------------------- handlers
\* a variant that checks the question alone
PostValidQuestionOnly(body) == Truthy(body.question)

\* if (!question || !answer)
PostValid(body) == Truthy(body.question) /\ Truthy(body.answer)

\* a variant that binds question and answer as given
ParamsUntrimmed(body, now) ==
    [question |-> body.question, answer |-> body.answer,
     category |-> normalizeCategory(body.category), now |-> now]

\* [String(question).trim(), String(answer).trim(), cleanCategory, now, ...]
Params(body, now) ==
    [question |-> Trim(body.question), answer |-> Trim(body.answer),
     category |-> normalizeCategory(body.category), now |-> now]

\* app.get("/api/faq")
GetFaq ==
    /\ Accepts("GET", 0, NoBody)
    /\ Settle(reqs, Idle, Issue(Received("GET", 0, NoBody), "executing"))
    /\ nreq' = nreq + 1
    /\ UNCHANGED <<exists, table, seq, clock, initPc, testNow, boots, history, normVars>>

\* db.all("SELECT * FROM faq ORDER BY id DESC") and its callback
GetFaqDone(r, err) ==
    /\ r.kind = "GET" /\ r.phase = "executing"
    /\ Settle(reqs, r,
         IF Fails(err) THEN Respond([r EXCEPT !.err = TRUE], 500, 0, <<>>)
         ELSE Respond(r, 200, 0, CleanRows(OrderByIdDesc(table))))
    /\ UNCHANGED <<exists, table, seq, clock, initPc, testNow, nreq, boots, history, normVars>>

\* app.post("/api/faq")
PostFaq(body) ==
    /\ Accepts("POST", 0, body)
    /\ LET r == Received("POST", 0, body)
       IN IF ~PostValid(body)
          THEN /\ Settle(reqs, Idle, Respond(r, 400, 0, <<>>))
               /\ UNCHANGED clock
          ELSE \E now \in Readings :
               /\ clock' = now
               /\ Settle(reqs, Idle,
                    Issue([r EXCEPT !.params = Params(body, now)], "executing"))
    /\ nreq' = nreq + 1
    /\ UNCHANGED <<exists, table, seq, initPc, testNow, boots, history, normVars>>

\* db.run(INSERT ...) and its callback
PostInserted(r, err) ==
    /\ r.kind = "POST" /\ r.phase = "executing"
    /\ IF Fails(err)
       THEN /\ Settle(reqs, r, Respond([r EXCEPT !.err = TRUE], 500, 0, <<>>))
            /\ UNCHANGED <<table, seq, created>>
       ELSE /\ seq < MaxId
            /\ LET p == r.params
               IN table' = table \cup
                    {NewRow(NextId, p.question, p.answer, p.category, p.now, p.now)}
            /\ seq' = NextId
            /\ created' = Append(created, [id |-> NextId, by |-> "POST"])
            /\ Settle(reqs, r,
                 Issue([r EXCEPT !.lastID = NextId, !.changes = 1], "readback"))
    /\ UNCHANGED <<exists, clock, initPc, testNow, nreq, boots, deleted, atStart, touched, normVars>>

\* db.get("SELECT * FROM faq WHERE id = ?", [this.lastID]) and its callback
PostReadBack(r, err) ==
    /\ r.kind = "POST" /\ r.phase = "readback"
    /\ Settle(reqs, r,
         IF Fails(err) THEN Respond([r EXCEPT !.err = TRUE], 200, r.lastID, <<>>)
         ELSE Respond(r, 200, r.lastID, SelectById(r.lastID)))
    /\ UNCHANGED <<exists, table, seq, clock, initPc, testNow, nreq, boots, history, normVars>>

\* app.delete("/api/faq/:id")
DeleteFaq(id) ==
    /\ Accepts("DELETE", id, NoBody)
    /\ LET r == Received("DELETE", id, NoBody)
       IN Settle(reqs, Idle,
            IF id = 0 THEN Respond(r, 400, 0, <<>>) ELSE Issue(r, "executing"))
    /\ nreq' = nreq + 1
    /\ UNCHANGED <<exists, table, seq, clock, initPc, testNow, boots, history, normVars>>

\* a variant whose callback does not look at this.changes
DeleteDoneUnchecked(r, err) ==
    /\ r.kind = "DELETE" /\ r.phase = "executing"
    /\ LET hit == RowsWithId(r.id)
           done == [r EXCEPT !.changes = Cardinality(hit)]
       IN IF Fails(err)
          THEN /\ Settle(reqs, r, Respond([r EXCEPT !.err = TRUE], 500, 0, <<>>))
               /\ UNCHANGED <<table, deleted, touched>>
          ELSE /\ table' = table \ hit
               /\ Settle(Disturb(reqs, {r.id}), r, Respond(done, 200, r.id, <<>>))
               /\ deleted' = deleted \cup {r.id}
               /\ touched' = touched \cup {r.id}
    /\ UNCHANGED <<exists, seq, clock, initPc, testNow, nreq, boots, created, atStart, normVars>>

\* db.run("DELETE FROM faq WHERE id = ?") and its callback
DeleteDone(r, err) ==
    /\ r.kind = "DELETE" /\ r.phase = "executing"
    /\ LET hit == RowsWithId(r.id)
           done == [r EXCEPT !.changes = Cardinality(hit)]
       IN IF Fails(err)
          THEN /\ Settle(reqs, r, Respond([r EXCEPT !.err = TRUE], 500, 0, <<>>))
               /\ UNCHANGED <<table, deleted, touched>>
          ELSE /\ table' = table \ hit
               /\ IF done.changes = 0
                  THEN /\ Settle(reqs, r, Respond(done, 404, 0, <<>>))
                       /\ UNCHANGED <<deleted, touched>>
                  ELSE /\ Settle(Disturb(reqs, {r.id}), r, Respond(done, 200, r.id, <<>>))
                       /\ deleted' = deleted \cup {r.id}
                       /\ touched' = touched \cup {r.id}
    /\ UNCHANGED <<exists, seq, clock, initPc, testNow, nreq, boots, created, atStart, normVars>>

\* if (!id || !question || !answer)
PutValid(id, body) == id # 0 /\ Truthy(body.question) /\ Truthy(body.answer)

\* app.put("/api/faq/:id")
PutFaq(id, body) ==
    /\ Accepts("PUT", id, body)
    /\ LET r == Received("PUT", id, body)
       IN IF ~PutValid(id, body)
          THEN /\ Settle(reqs, Idle, Respond(r, 400, 0, <<>>))
               /\ UNCHANGED clock
          ELSE \E now \in Readings :
               /\ clock' = now
               /\ Settle(reqs, Idle,
                    Issue([r EXCEPT !.params = Params(body, now)], "executing"))
    /\ nreq' = nreq + 1
    /\ UNCHANGED <<exists, table, seq, initPc, testNow, boots, history, normVars>>

\* UPDATE faq SET ... WHERE id = ?
UpdateWhereId(id, p) ==
    {IF r.id = id THEN UpdateRow(r, p) ELSE r : r \in table}

\* db.run(UPDATE ...) and its callback
PutUpdated(r, err) ==
    /\ r.kind = "PUT" /\ r.phase = "executing"
    /\ LET done == [r EXCEPT !.changes = Cardinality(RowsWithId(r.id))]
       IN IF Fails(err)
          THEN /\ Settle(reqs, r, Respond([r EXCEPT !.err = TRUE], 500, 0, <<>>))
               /\ UNCHANGED <<table, touched>>
          ELSE /\ table' = UpdateWhereId(r.id, r.params)
               /\ IF done.changes = 0
                  THEN /\ Settle(reqs, r, Respond(done, 404, 0, <<>>))
                       /\ UNCHANGED touched
                  ELSE /\ Settle(Disturb(reqs, {r.id}), r, Issue(done, "readback"))
                       /\ touched' = touched \cup {r.id}
    /\ UNCHANGED <<exists, seq, clock, initPc, testNow, nreq, boots, created, deleted, atStart, normVars>>

\* db.get("SELECT * FROM faq WHERE id = ?", [id]) and its callback
PutReadBack(r, err) ==
    /\ r.kind = "PUT" /\ r.phase = "readback"
    /\ Settle(reqs, r,
         IF Fails(err) THEN Respond([r EXCEPT !.err = TRUE], 200, r.id, <<>>)
         ELSE Respond(r, 200, r.id, SelectById(r.id)))
    /\ UNCHANGED <<exists, table, seq, clock, initPc, testNow, nreq, boots, history, normVars>>

Next ==
    \/ \E err \in BOOLEAN : InitCreate(err)
    \/ \E err \in BOOLEAN : InitInsert(err)
    \/ \E err \in BOOLEAN : InitCleanup(err)
    \/ Restart
    \/ GetFaq
    \/ \E r \in reqs, err \in BOOLEAN : GetFaqDone(r, err)
    \/ \E body \in PostBodies : PostFaq(body)
    \/ \E r \in reqs, err \in BOOLEAN : PostInserted(r, err)
    \/ \E r \in reqs, err \in BOOLEAN : PostReadBack(r, err)
    \/ \E id \in Ids : DeleteFaq(id)
    \/ \E r \in reqs, err \in BOOLEAN : DeleteDone(r, err)
    \/ \E id \in Ids, body \in PutBodies : PutFaq(id, body)
    \/ \E r \in reqs, err \in BOOLEAN : PutUpdated(r, err)
    \/ \E r \in reqs, err \in BOOLEAN : PutReadBack(r, err)

Spec == Init /\ [][Next]_vars

\* ------------------------------------------- normalizeCategory on its own
Alphabet == {"a", "b", " ", ","}
Strings == UNION {[1..n -> Alphabet] : n \in 0..MaxLen}

InitNorm ==
    /\ exists = FALSE /\ table = {} /\ seq = 0 /\ clock = 0
    /\ initPc = "create" /\ testNow = 0 /\ reqs = {} /\ resp = Idle
    /\ nreq = 0 /\ boots = 0
    /\ created = <<>> /\ deleted = {} /\ atStart = {} /\ touched = {}
    /\ catIn \in Strings \cup {Absent}
    /\ catOut = <<>> /\ catTwice = <<>> /\ normPc = "input"

serverVars == <<exists, table, seq, clock, initPc, testNow, reqs, resp, nreq,
                boots, created, deleted, atStart, touched>>

NormOnce ==
    /\ normPc = "input"
    /\ catOut' = normalizeCategory(catIn)
    /\ normPc' = "once"
    /\ UNCHANGED <<serverVars, catIn, catTwice>>

NormTwice ==
    /\ normPc = "once"
    /\ catTwice' = normalizeCategory(catOut)
    /\ normPc' = "twice"
    /\ UNCHANGED <<serverVars, catIn, catOut>>

NextNorm == NormOnce \/ NormTwice

SpecNorm == InitNorm /\ [][NextNorm]_vars

\* ================================================================= claims
IsBlank(s) == \A i \in 1..Len(s) : s[i] \in WhiteSpace
Lacks(body) == body.question = Absent \/ body.answer = Absent
PositionIn(made, id) == CHOOSE i \in 1..Len(made) : made[i].id = id

\* the ids of the entries that requests created
PostedIds == {created[i].id : i \in {j \in 1..Len(created) : created[j].by = "POST"}}

\* the request received by this step, when the step is a handler's
Arrived ==
    IF nreq' = nreq + 1
    THEN (reqs' \ reqs) \cup (IF resp'.kind # "none" THEN {resp'} ELSE {})
    ELSE {}

\* request r of reqs had its pending statement run by this step
Ran(r) == r \in reqs /\ r \notin reqs' /\ boots' = boots

\* C1: every persisted entry has a question and an answer that are neither
\* empty nor whitespace-only, whatever bodies POST and PUT were given.
C1_NoBlankPersisted ==
    \A row \in table : ~IsBlank(row.question) /\ ~IsBlank(row.answer)

\* C2: a POST or PUT whose body lacks question or answer is answered 400 by
\* its handler, hands no statement to the engine, and leaves the persisted
\* entries, hence the list a GET would return, as they were.
C2_RejectedWithoutStorage ==
    [][\A r \in Arrived :
          (r.kind \in {"POST", "PUT"} /\ Lacks(r.body)) =>
             /\ r.phase = "responded" /\ r.status = 400 /\ r.responses = 1
             /\ r.stmts = 0
             /\ r \notin reqs'
             /\ table' = table /\ seq' = seq
             /\ CleanRows(OrderByIdDesc(table')) = CleanRows(OrderByIdDesc(table))]_vars

C2_Witness ==
    /\ resp.kind = "POST" /\ resp.body.answer = Absent /\ resp.status = 400
    /\ table # {}

\* C3: once a DELETE request has removed id k, no row has id k ever again,
\* and every PUT or DELETE on k whose statement runs afterwards changes
\* nothing and is answered 404 (500 when the engine itself fails).
C3_DeletedStaysGone ==
    [][/\ \A id \in deleted : \A row \in table' : row.id # id
       /\ \A r \in reqs :
            (r.kind \in {"PUT", "DELETE"} /\ r.phase = "executing"
               /\ r.id \in deleted /\ Ran(r)) =>
               /\ resp'.kind = r.kind /\ resp'.id = r.id
               /\ resp'.status = (IF resp'.err THEN 500 ELSE 404)
               /\ table' = table]_vars

C3_Witness ==
    /\ resp.kind = "PUT" /\ resp.status = 404 /\ resp.id \in deleted
    /\ \E row \in table : row.id > resp.id /\ row.id \in PostedIds

\* C4: when the startup chain ends, every entry that a request had created
\* and that was persisted when the process started, and that no request wrote
\* since, is still persisted with the same field values, whatever its
\* question text.
C4_StartupKeepsRows ==
    [][(initPc # "done" /\ initPc' = "done") =>
          \A row \in atStart :
              (row.id \in PostedIds /\ row.id \notin touched) => row \in table']_vars

\* C5: a PUT that updates entry k changes only question, answer, category
\* and updated_at of entry k: its id and created_at and every other entry
\* stay as they were.
C5_UpdateFrame ==
    [][\A r \in reqs :
          (r.kind = "PUT" /\ r.phase = "executing" /\ Ran(r) /\ resp'.kind = "none") =>
             /\ {row.id : row \in table'} = {row.id : row \in table}
             /\ Cardinality(table') = Cardinality(table)
             /\ \A row \in table :
                  IF row.id # r.id THEN row \in table'
                  ELSE [id |-> row.id,
                        question |-> Trim(r.body.question),
                        answer |-> Trim(r.body.answer),
                        category |-> normalizeCategory(r.body.category),
                        created_at |-> row.created_at,
                        updated_at |-> r.params.now] \in table']_vars

C5_Witness ==
    /\ resp.kind = "PUT" /\ resp.status = 200 /\ Len(resp.data) = 1
    /\ resp.data[1].created_at < resp.data[1].updated_at
    /\ resp.data[1].question # TestQuestion
    /\ Cardinality(table) >= 2

\* the entry a POST creates, as the claim describes it
IsCreatedEntry(row, r) ==
    /\ row.id = r.rid
    /\ row.question = Trim(r.body.question)
    /\ row.answer = Trim(r.body.answer)
    /\ row.category = normalizeCategory(r.body.category)
    /\ row.created_at = row.updated_at

\* C6 as claimed: every POST that reports success returns, under every
\* interleaving, a data row with the returned non-null id, the trimmed
\* question and answer, the normalized category and created_at = updated_at.
C6_PostReturnsCreated ==
    (resp.kind = "POST" /\ resp.status = 200) =>
        /\ resp.rid # 0
        /\ Len(resp.data) = 1
        /\ IsCreatedEntry(resp.data[1], resp)

\* C6 as amended: every POST that reports success returns the non-null id
\* its insert assigned.  When the read-back succeeds and no other statement
\* wrote that row between the insert and the read-back, data is the created
\* entry.  Otherwise data is absent (the read-back failed, or the row was
\* deleted in between) or is the row as stored under that id at the
\* read-back, with the created_at of the insert.
C6_PostReturnsStored ==
    (resp.kind = "POST" /\ resp.status = 200) =>
        /\ resp.rid # 0 /\ resp.rid = resp.lastID
        /\ Len(resp.data) <= 1
        /\ (resp.untouched /\ ~resp.err) =>
              Len(resp.data) = 1 /\ IsCreatedEntry(resp.data[1], resp)
        /\ Len(resp.data) = 1 =>
              /\ resp.data[1] \in table
              /\ resp.data[1].id = resp.rid
              /\ resp.data[1].created_at = resp.params.now
        /\ resp.err => resp.data = <<>>

C6_Witness ==
    /\ resp.kind = "POST" /\ resp.status = 200 /\ ~resp.untouched
    /\ Len(resp.data) = 1
    /\ resp.data[1].question # Trim(resp.body.question)
    /\ resp.data[1].updated_at # resp.data[1].created_at

\* C7: a GET that succeeds returns every persisted entry exactly once, in
\* strictly descending id order, which is the reverse of the order in which
\* the surviving entries were created.
C7_ListOrder ==
    (resp.kind = "GET" /\ resp.status = 200) =>
        LET data == resp.data
        IN /\ Len(data) = Cardinality(table)
           /\ \A row \in table :
                \E i \in 1..Len(data) :
                    data[i] = [row EXCEPT !.category = normalizeCategory(@)]
           /\ \A i, j \in 1..Len(data) :
                i < j => /\ data[i].id > data[j].id
                         /\ PositionIn(created, data[i].id) > PositionIn(created, data[j].id)

C7_Witness ==
    /\ resp.kind = "GET" /\ resp.status = 200
    /\ Len(resp.data) >= 2
    /\ Len(created) > Len(resp.data)
    /\ \A i \in 1..Len(resp.data) : resp.data[i].id \in PostedIds

\* C8: every persisted entry has updated_at >= created_at, when each handler
\* reads the clock on receipt and its statement runs later, in any order.
C8_UpdatedNotBeforeCreated ==
    \A row \in table : row.updated_at >= row.created_at

\* C9: normalizeCategory is idempotent, and its result is empty or a list of
\* non-empty trimmed tokens joined by single commas, the tokens being those
\* of the input in their original order.
Letters(s) == SelectSeq(s, LAMBDA c : c \notin WhiteSpace /\ c # Comma)
Canonical(s) ==
    s = <<>> \/ \A i \in 1..Len(Split(s)) :
                    Split(s)[i] # <<>> /\ Trim(Split(s)[i]) = Split(s)[i]
NonBlankPieces(s) ==
    IF s = Absent THEN <<>> ELSE SelectSeq(Split(s), LAMBDA t : ~IsBlank(t))

C9_NormalizeIdempotent ==
    (normPc = "twice") =>
        /\ catTwice = catOut
        /\ Canonical(catOut)
        /\ Len(NonBlankPieces(catOut)) = Len(NonBlankPieces(catIn))
        /\ \A i \in 1..Len(NonBlankPieces(catIn)) :
              /\ Letters(NonBlankPieces(catOut)[i]) = Letters(NonBlankPieces(catIn)[i])
              /\ Len(NonBlankPieces(catOut)[i]) <= Len(NonBlankPieces(catIn)[i])

C9_Witness ==
    /\ normPc = "twice"
    /\ catIn = <<" ", "a", ",", ",">>
    /\ catOut = <<"a">>

\* C10: a request is answered exactly once and in the order received,
\* validated, executed, responded: a validation failure is answered 400
\* with no statement issued, a failed write 500 with no read-back, a write
\* of zero rows 404 with no read-back; a request in flight is unanswered and
\* has exactly one statement pending.
C10_AnsweredOnce ==
    /\ \A r \in reqs :
         /\ r.responses = 0 /\ r.status = 0
         /\ r.phase \in {"executing", "readback"}
         /\ r.stmts = (IF r.phase = "executing" THEN 1 ELSE 2)
         /\ r.phase = "readback" => r.kind \in {"POST", "PUT"} /\ r.changes = 1
         /\ r.kind \in {"POST", "PUT"} => Truthy(r.body.question) /\ Truthy(r.body.answer)
    /\ resp.kind # "none" =>
         /\ resp.responses = 1 /\ resp.phase = "responded"
         /\ resp.status \in {200, 400, 404, 500}
         /\ (resp.status = 400) = (resp.stmts = 0)
         /\ (resp.status = 400) =
               (resp.kind \in {"POST", "PUT"}
                  /\ ~(Truthy(resp.body.question) /\ Truthy(resp.body.answer)))
         /\ (resp.status = 500) = (resp.stmts = 1 /\ resp.err)
         /\ (resp.status = 404) =
               (resp.kind \in {"PUT", "DELETE"} /\ resp.stmts = 1
                  /\ ~resp.err /\ resp.changes = 0)
         /\ resp.stmts = 2 => resp.kind \in {"POST", "PUT"} /\ resp.status = 200

C10_Witness ==
    /\ resp.kind = "DELETE" /\ resp.status = 404 /\ resp.stmts = 1
    /\ \E r \in reqs : r.phase = "readback"

====
